---- MODULE Spec2Model ----
(***************************************************************************)
(* State-machine model of the AutoDeleter plugin                           *)
(* (src/src/privcordplugins/autoDeleter/index.tsx).                        *)
(*                                                                         *)
(* Time is in milliseconds.  A handler that runs without yielding to the   *)
(* event loop is one action; every `await` of a network request is a point *)
(* where other handlers interleave, so deleteMessage is split into the     *)
(* part that runs up to the request (DeleteMessage) and the part that runs *)
(* when the reply arrives (DeleteResponse).  The four perform*Deletion     *)
(* functions are one request whose reply is success or an HTTP error.      *)
(* Counters that the code only writes (messagesDeleted, messagesSaved,     *)
(* errors, totalRateLimits, lastSuccessfulDeletion, the caches) are left   *)
(* out.                                                                    *)
(*                                                                         *)
(* Two smaller machines share the module: the start/stop lifecycle of the  *)
(* read-receipt plugin (src/src/privcordplugins/Read/index.tsx, variable   *)
(* read) and the deletion loop of Undiscord's handleDelete                 *)
(* (src/src/privcordplugins/undiscord/index.tsx, variable undiscord).      *)
(***************************************************************************)
EXTENDS Integers, Sequences, FiniteSets, TLC

\* ---------------------------------------------------------------- bounds
MaxMsgs == 2
LifecycleMsgs == 1
BurstMsgs == 3
Horizon == 20000
MaxRequests == 3
BurstRequests == 4
HourlyMsgs == 2
MaxDelayHundreds == 40
FilterMsgs == 1
FilterRequests == 2
MaxReadStarts == 2
MaxReceipts == 2
MaxClicks == 1
MaxTargets == 3
MaxStarts == 2
StartTime == 100000

\* ------------------------------------------------------- code constants
minuteInMs == 60 * 1000
hourInMs == 60 * 60 * 1000
ImmediateDelay == 2000
ThrottleRetryDelay == 5000
MinRateLimitRetryDelay == 5000
GlobalCooldownThreshold == 3
MaxCooldown == 30000
\* setTimeout takes its delay as a signed 32-bit integer of milliseconds; 2^32
\* and 2^31 milliseconds, in units of 8 ms
Int32Range8 == 536870912
Int32Limit8 == 268435456

VARIABLES
  now,          \* Date.now()
  settings,     \* settings.store (the fields that change or are read as a set)
  running,      \* MESSAGE_CREATE is subscribed: start() ran, stop() did not
  msgs,         \* the MESSAGE_CREATE events seen so far, by message id
  messageStore, \* ids for which MessageStore.getMessage returns a message
  plugin,       \* the plugin object's fields, the DataStore entry, the requests in flight
  sent,         \* per message: number of deleteMessage calls that reached the delete step
  consec429,    \* number of replies in a row that were HTTP 429
  starts,       \* number of start() calls so far
  deleted,      \* the requests answered with success: message, request, time
  esa,          \* the last emergencyStopAll() call: messages pending then, requests sent before
  hist,         \* time of the last request, per message the last 429 reply, the cancelled messages
  timeout,      \* the last setTimeout call of scheduleMessageDeletion: delay asked, delay waited
  read,         \* the module variables of the read-receipt plugin and what it has registered
  undiscord     \* the locals of one handleDelete run of Undiscord

others == <<timeout, read, undiscord>>
vars == <<now, settings, running, msgs, messageStore, plugin, sent, consec429, starts, deleted, esa,
          hist, timeout, read, undiscord>>

MsgIds == 1..(MaxMsgs + LifecycleMsgs + BurstMsgs)
MaxTime == StartTime + Horizon
NoTimer == [id |-> 0, fireAt |-> 0, kind |-> "none"]
NoCont == [kind |-> "none", items |-> <<>>, now0 |-> 0]
No429 == [at |-> 0, retry_after |-> 0, starts |-> 0]
NoTimeout == [delay8 |-> 0, wait8 |-> 0, set |-> FALSE, fired |-> FALSE]
RetryAfters == {0, 6}
Outcomes == {[status |-> 200, retry_after |-> 0], [status |-> 404, retry_after |-> 0],
             [status |-> 500, retry_after |-> 0]}
            \cup {[status |-> 429, retry_after |-> r] : r \in RetryAfters}

Min(a, b) == IF a < b THEN a ELSE b
Max(a, b) == IF a > b THEN a ELSE b

\* ------------------------------------------------------- string helpers
ToLower(c) == IF c = "A" THEN "a" ELSE IF c = "K" THEN "k" ELSE IF c = "D" THEN "d" ELSE c
LowerCase(s) == [i \in 1..Len(s) |-> ToLower(s[i])]
Includes(s, k) == \E i \in 0..(Len(s) - Len(k)) : SubSeq(s, i + 1, i + Len(k)) = k

RECURSIVE TrimLeft(_)
TrimLeft(s) == IF s # <<>> /\ Head(s) = " " THEN TrimLeft(Tail(s)) ELSE s
RECURSIVE TrimRight(_)
TrimRight(s) == IF s # <<>> /\ s[Len(s)] = " " THEN TrimRight(SubSeq(s, 1, Len(s) - 1)) ELSE s
Trim(s) == TrimRight(TrimLeft(s))

RECURSIVE SplitComma(_, _)
SplitComma(s, cur) ==
  IF s = <<>> THEN <<cur>>
  ELSE IF Head(s) = "," THEN <<cur>> \o SplitComma(Tail(s), <<>>)
  ELSE SplitComma(Tail(s), Append(cur, Head(s)))

\* list.split(",").map(trim).filter(nonempty), as a set of strings
ParseList(s) == {Trim(x) : x \in {SplitComma(s, <<>>)[i] : i \in 1..Len(SplitComma(s, <<>>))}} \ {<<>>}
ParseKeywords(s) == {LowerCase(x) : x \in ParseList(s)}

\* ------------------------------------------------------------- filters
shouldProcessChannel(channelId) ==
  CASE settings.channelMode = "all" -> TRUE
    [] settings.channelMode = "whitelist" -> channelId \in ParseList(settings.channelList)
    [] settings.channelMode = "blacklist" -> channelId \notin ParseList(settings.channelList)
    [] settings.channelMode = "guilds" -> TRUE
    [] OTHER -> TRUE

\* shouldProcessGuild that lets a message without a guild through
shouldProcessGuildAcceptsNoGuild(guildId) ==
  IF settings.channelMode # "guilds" THEN TRUE
  ELSE guildId = <<>> \/ guildId \in ParseList(settings.guildList)

shouldProcessGuild(guildId) ==
  IF settings.channelMode # "guilds" THEN TRUE
  ELSE guildId \in ParseList(settings.guildList)

\* shouldPreserveMessage that compares the content without lowering its case
shouldPreserveMessageCaseSensitive(message) ==
  LET content == message.content
      keywords == ParseKeywords(settings.preserveKeywords)
  IN \/ \E k \in keywords : Includes(content, k)
     \/ settings.maxMessageLength > 0 /\ Len(content) > settings.maxMessageLength
     \/ settings.minMessageLength > 0 /\ Len(content) < settings.minMessageLength
     \/ settings.preserveEmbeds /\ message.embeds > 0
     \/ settings.preserveAttachments /\ message.attachments > 0
     \/ settings.preserveReactions /\ message.reactions > 0

shouldPreserveMessage(message) ==
  LET content == message.content
      keywords == ParseKeywords(settings.preserveKeywords)
  IN \/ \E k \in keywords : Includes(LowerCase(content), k)
     \/ settings.maxMessageLength > 0 /\ Len(content) > settings.maxMessageLength
     \/ settings.minMessageLength > 0 /\ Len(content) < settings.minMessageLength
     \/ settings.preserveEmbeds /\ message.embeds > 0
     \/ settings.preserveAttachments /\ message.attachments > 0
     \/ settings.preserveReactions /\ message.reactions > 0

shouldDeleteImmediately(content) ==
  /\ content # <<>>
  /\ \E k \in ParseKeywords(settings.deleteKeywords) : Includes(LowerCase(content), k)

getDelayInMs ==
  CASE settings.delayUnit = "seconds" -> settings.defaultDelay * 1000
    [] settings.delayUnit = "minutes" -> settings.defaultDelay * 60 * 1000
    [] settings.delayUnit = "hours" -> settings.defaultDelay * 60 * 60 * 1000
    [] OTHER -> settings.defaultDelay * 1000

\* getDelayInMs in units of 8 ms, for delays that reach 2^31 ms
unitIn8Ms(unit) ==
  CASE unit = "seconds" -> 125
    [] unit = "minutes" -> 60 * 125
    [] unit = "hours" -> 60 * 60 * 125
    [] OTHER -> 125
getDelayIn8Ms == settings.defaultDelay * unitIn8Ms(settings.delayUnit)

\* the conversion of setTimeout's delay to a signed 32-bit integer, and the
\* time the timer then waits (a negative delay is 0), in units of 8 ms
ToInt32In8Ms(d8) ==
  LET w == d8 % Int32Range8
  IN IF w >= Int32Limit8 THEN w - Int32Range8 ELSE w
setTimeoutWait8(d8) == Max(ToInt32In8Ms(d8), 0)

\* floor(base * min(1 + len/1000, 3) * (media ? 1.5 : 1)), in integers
calculateSmartDelay(message) ==
  IF ~settings.smartDelay THEN getDelayInMs
  ELSE LET len == Len(message.content)
           lm1000 == Min(1000 + len, 3000)
           mm2 == IF message.embeds > 0 \/ message.attachments > 0 THEN 3 ELSE 2
       IN (getDelayInMs * lm1000 * mm2) \div 2000

\* ------------------------------------------------- the plugin's state
InitRateLimitInfo ==
  [isRateLimited |-> FALSE, retryAfter |-> 0, lastRateLimit |-> 0,
   consecutiveRateLimits |-> 0, backoffMultiplier2 |-> 2,
   globalCooldown |-> FALSE, globalCooldownUntil |-> 0,
   circuitBreakerOpen |-> FALSE, circuitBreakerUntil |-> 0]

InitThrottlingInfo == [lastDeletionTime |-> 0, deletionCount |-> 0, windowStart |-> 0]

\* the object literal of definePlugin: what the fields hold when the client has loaded
EmptyMap == [k \in {} |-> 0]

InitPlugin(storage, reqSeq, loadTime) ==
  [trackedMessages |-> EmptyMap,
   timers |-> {},
   storage |-> storage,
   deletionQueue |-> <<>>,
   batchProcessor |-> FALSE,
   retryQueue |-> <<>>,
   retryProcessor |-> FALSE,
   rateLimitInfo |-> InitRateLimitInfo,
   throttlingInfo |-> InitThrottlingInfo,
   hourlyDeletions |-> 0,
   lastHourReset |-> loadTime,
   inflight |-> {},
   reqSeq |-> reqSeq]

Tracked(p) == DOMAIN p.trackedMessages

\* Map.delete(id)
MapDelete(f, id) == [k \in (DOMAIN f) \ {id} |-> f[k]]
\* Map.set(id, v)
MapSet(f, id, v) == [k \in (DOMAIN f) \cup {id} |-> IF k = id THEN v ELSE f[k]]

\* clearTimeout for every tracked message that has a timeoutId
ClearTrackedTimers(p) ==
  [p EXCEPT !.timers = @ \ {p.trackedMessages[m].timeoutId : m \in Tracked(p)}]

saveTrackedMessages(p) ==
  [p EXCEPT !.storage = {[id |-> m, scheduledTime |-> p.trackedMessages[m].scheduledTime] : m \in Tracked(p)}]

InRetryQueue(p, id) == \E i \in 1..Len(p.retryQueue) : p.retryQueue[i].messageId = id

addToRetryQueue(p, id, attempts, delay) ==
  LET baseDelay == IF delay # 0 THEN delay
                   ELSE (settings.retryDelay * p.rateLimitInfo.backoffMultiplier2) \div 2
  IN [p EXCEPT !.retryQueue = Append(@, [messageId |-> id, attempts |-> attempts,
                                          nextRetry |-> now + baseDelay]),
               !.retryProcessor = TRUE]

addToDeletionQueue(p, id) ==
  [p EXCEPT !.deletionQueue = Append(@, id), !.batchProcessor = TRUE]

checkHourlyLimitReset(p) ==
  IF now - p.lastHourReset > hourInMs
  THEN [p EXCEPT !.hourlyDeletions = 0, !.lastHourReset = now] ELSE p
checkHourlyLimit(p) ==
  ~(settings.maxMessagesPerHour > 0 /\ checkHourlyLimitReset(p).hourlyDeletions >= settings.maxMessagesPerHour)

\* the window reset that checkThrottlingLimits does before it answers
checkThrottlingReset(p) ==
  IF settings.aggressiveThrottling /\ now - p.throttlingInfo.windowStart > minuteInMs
  THEN [p EXCEPT !.throttlingInfo.deletionCount = 0, !.throttlingInfo.windowStart = now]
  ELSE p
checkThrottlingLimits(p) ==
  \/ ~settings.aggressiveThrottling
  \/ /\ checkThrottlingReset(p).throttlingInfo.deletionCount < settings.maxDeletionsPerMinute
     /\ now - p.throttlingInfo.lastDeletionTime >= settings.minDelayBetweenDeletions

updateThrottlingInfo(p) ==
  [p EXCEPT !.throttlingInfo.lastDeletionTime = now,
            !.throttlingInfo.deletionCount = @ + 1]

\* the finally block of deleteMessage
DeleteFinally(p, id) ==
  IF InRetryQueue(p, id) THEN p
  ELSE saveTrackedMessages([p EXCEPT !.trackedMessages = MapDelete(@, id)])

\* deleteMessage up to its first await: [sent |-> the request was sent, p |-> state after]
deleteMessage(p, id, attempt, cont) ==
  LET rl == p.rateLimitInfo
      limited == rl.isRateLimited /\ settings.rateLimitHandling
      active == limited /\ now - rl.lastRateLimit < rl.retryAfter * 1000
      p1 == IF limited /\ ~active
            THEN [p EXCEPT !.rateLimitInfo.isRateLimited = FALSE,
                           !.rateLimitInfo.consecutiveRateLimits = 0,
                           !.rateLimitInfo.backoffMultiplier2 = 2]
            ELSE p
      p2 == checkThrottlingReset(p1)
  IN IF active
     THEN [sent |-> FALSE, p |-> DeleteFinally(addToRetryQueue(p, id, attempt, 0), id)]
     ELSE IF ~checkThrottlingLimits(p1)
     THEN [sent |-> FALSE, p |-> DeleteFinally(addToRetryQueue(p2, id, attempt, ThrottleRetryDelay), id)]
     ELSE [sent |-> TRUE,
           p |-> [p2 EXCEPT !.hourlyDeletions = @ + 1,
                            !.reqSeq = @ + 1,
                            !.inflight = @ \cup {[req |-> p2.reqSeq + 1, id |-> id,
                                                   attempt |-> attempt, cont |-> cont]}]]

scheduleMessageDeletionFromRestore(p, savedMsg, delay) ==
  LET t == [id |-> savedMsg.id, fireAt |-> now + delay, kind |-> "restore"]
  IN [p EXCEPT !.timers = @ \cup {t},
               !.trackedMessages = MapSet(@, savedMsg.id,
                    [scheduledTime |-> savedMsg.scheduledTime, timeoutId |-> t])]

\* the rest of a processBatchDeletion run: the items are deleted one after
\* the other, each awaited
RECURSIVE BatchLoop(_, _)
BatchLoop(p, items) ==
  IF items = <<>> THEN p
  ELSE LET r == deleteMessage(p, Head(items), 1,
                              [kind |-> "batch", items |-> Tail(items), now0 |-> 0])
       IN IF r.sent THEN r.p ELSE BatchLoop(r.p, Tail(items))

\* the for loop of restoreTrackedMessages from item items[1] on; now0 is the
\* Date.now() taken before the loop
RECURSIVE RestoreLoop(_, _, _)
RestoreLoop(p, items, now0) ==
  IF items = <<>> THEN p
  ELSE LET savedMsg == Head(items)
           timeUntilDeletion == savedMsg.scheduledTime - now0
       IN IF timeUntilDeletion <= 0
          THEN LET r == deleteMessage(p, savedMsg.id, 1,
                                      [kind |-> "restore", items |-> Tail(items), now0 |-> now0])
               IN IF r.sent THEN r.p ELSE RestoreLoop(r.p, Tail(items), now0)
          ELSE IF savedMsg.id \notin messageStore
          THEN RestoreLoop(p, Tail(items), now0)
          ELSE RestoreLoop(scheduleMessageDeletionFromRestore(p, savedMsg, timeUntilDeletion),
                           Tail(items), now0)

\* resume the loop that awaited a deleteMessage call
Continue(p, cont) ==
  CASE cont.kind = "batch" -> BatchLoop(p, cont.items)
    [] cont.kind = "restore" -> RestoreLoop(p, cont.items, cont.now0)
    [] OTHER -> p

\* the saved array, in the order of the Map it was taken from (ids ascend)
RECURSIVE SortById(_)
SortById(S) ==
  IF S = {} THEN <<>>
  ELSE LET x == CHOOSE y \in S : \A z \in S : y.id <= z.id
       IN <<x>> \o SortById(S \ {x})

restoreTrackedMessages(p) == RestoreLoop(p, SortById(p.storage), now)

scheduleMessageDeletion(p, message, customDelay) ==
  LET delay == IF customDelay # 0 THEN customDelay ELSE getDelayInMs
      t == [id |-> message.id, fireAt |-> now + delay, kind |-> "create"]
  IN saveTrackedMessages(
       [p EXCEPT !.timers = @ \cup {t},
                 !.trackedMessages = MapSet(@, message.id,
                      [scheduledTime |-> now + delay, timeoutId |-> t])])

onMessageCreate(p, message) ==
  LET rl == p.rateLimitInfo
      breakerBlocks == rl.circuitBreakerOpen /\ now < rl.circuitBreakerUntil
      p1 == IF rl.circuitBreakerOpen
            THEN [p EXCEPT !.rateLimitInfo.circuitBreakerOpen = FALSE,
                           !.rateLimitInfo.circuitBreakerUntil = 0]
            ELSE p
      cooldownBlocks == rl.globalCooldown /\ now < rl.globalCooldownUntil
      p2 == IF rl.globalCooldown
            THEN [p1 EXCEPT !.rateLimitInfo.globalCooldown = FALSE,
                            !.rateLimitInfo.globalCooldownUntil = 0]
            ELSE p1
      p3 == checkHourlyLimitReset(p2)
      p4 == checkThrottlingReset(p3)
  IN IF ~settings.enabled \/ settings.emergencyStop THEN p
     ELSE IF message.author # "me" THEN p
     ELSE IF breakerBlocks THEN p
     ELSE IF cooldownBlocks THEN p1
     ELSE IF ~checkHourlyLimit(p2) THEN p3
     ELSE IF ~checkThrottlingLimits(p3) THEN p4
     ELSE IF ~shouldProcessChannel(message.channel_id) THEN p4
     ELSE IF ~shouldProcessGuild(message.guild_id) THEN p4
     ELSE IF shouldPreserveMessage(message) THEN p4
     ELSE IF shouldDeleteImmediately(message.content)
     THEN scheduleMessageDeletion(p4, message, ImmediateDelay)
     ELSE scheduleMessageDeletion(p4, message, calculateSmartDelay(message))

handleRateLimit(p, error, id, attempt) ==
  LET retryAfter == IF error.retry_after # 0 THEN error.retry_after ELSE 1
      c == p.rateLimitInfo.consecutiveRateLimits + 1
      p1 == [p EXCEPT !.rateLimitInfo.isRateLimited = TRUE,
                      !.rateLimitInfo.retryAfter = retryAfter,
                      !.rateLimitInfo.lastRateLimit = now,
                      !.rateLimitInfo.consecutiveRateLimits = c,
                      !.rateLimitInfo.backoffMultiplier2 =
                          IF settings.adaptiveDelay THEN Min(20, 2 + c) ELSE @]
      p2 == IF c >= GlobalCooldownThreshold
            THEN [p1 EXCEPT !.rateLimitInfo.globalCooldown = TRUE,
                            !.rateLimitInfo.globalCooldownUntil =
                                now + Min(MaxCooldown, retryAfter * 1000 * 2)]
            ELSE p1
      p3 == IF c >= settings.circuitBreakerThreshold
            THEN [p2 EXCEPT !.rateLimitInfo.circuitBreakerOpen = TRUE,
                            !.rateLimitInfo.circuitBreakerUntil =
                                now + settings.circuitBreakerDuration * 60 * 1000]
            ELSE p2
  IN IF attempt < settings.maxRetries
     THEN addToRetryQueue(p3, id, attempt, Max(retryAfter * 1000, MinRateLimitRetryDelay))
     ELSE [p3 EXCEPT !.trackedMessages = MapDelete(@, id)]

handleDeletionError(p, error, id, attempt) ==
  IF error.status = 429 /\ settings.rateLimitHandling THEN handleRateLimit(p, error, id, attempt)
  ELSE IF error.status = 404 THEN [p EXCEPT !.trackedMessages = MapDelete(@, id)]
  ELSE IF attempt < settings.maxRetries THEN addToRetryQueue(p, id, attempt + 1, 0)
  ELSE [p EXCEPT !.trackedMessages = MapDelete(@, id)]

\* deleteMessage from the reply of the request on: success path or catch, then finally
deleteMessageReply(p, r, reply) ==
  LET p0 == [p EXCEPT !.inflight = @ \ {r}]
      p1 == IF reply.status = 200
            THEN [updateThrottlingInfo(p0) EXCEPT !.rateLimitInfo.consecutiveRateLimits =
                                                      IF @ > 0 THEN Max(0, @ - 1) ELSE @]
            ELSE handleDeletionError(p0, reply, r.id, r.attempt)
  IN DeleteFinally(p1, r.id)

RemoveFirst(q, item) ==
  LET i == CHOOSE j \in 1..Len(q) : q[j] = item /\ \A k \in 1..(j - 1) : q[k] # item
  IN IF \E j \in 1..Len(q) : q[j] = item
     THEN SubSeq(q, 1, i - 1) \o SubSeq(q, i + 1, Len(q)) ELSE q

ReadyToRetry(p) == SelectSeq(p.retryQueue, LAMBDA item : item.nextRetry <= now)

RECURSIVE RetryLoop(_, _)
RetryLoop(p, ready) ==
  IF ready = <<>> THEN p
  ELSE LET item == Head(ready)
           p1 == [p EXCEPT !.retryQueue = RemoveFirst(@, item)]
       IN RetryLoop(deleteMessage(p1, item.messageId, item.attempts, NoCont).p, Tail(ready))

processRetryQueue(p) ==
  IF ReadyToRetry(p) = <<>>
  THEN IF p.retryQueue = <<>> /\ p.retryProcessor THEN [p EXCEPT !.retryProcessor = FALSE] ELSE p
  ELSE RetryLoop(p, ReadyToRetry(p))

processBatchDeletion(p) ==
  IF p.deletionQueue = <<>>
  THEN [p EXCEPT !.batchProcessor = FALSE]
  ELSE LET n == Min(settings.batchSize, Len(p.deletionQueue))
       IN BatchLoop([p EXCEPT !.deletionQueue = SubSeq(@, n + 1, Len(@))],
                    SubSeq(p.deletionQueue, 1, n))

TimerCallback(p, t) ==
  IF t.kind = "create" /\ settings.batchDelete
  THEN addToDeletionQueue(p, t.id)
  ELSE deleteMessage(p, t.id, 1, NoCont).p

stop(p) == saveTrackedMessages(ClearTrackedTimers(p))

emergencyStopAll(p) ==
  [ClearTrackedTimers(p) EXCEPT !.deletionQueue = <<>>,
                                !.retryQueue = <<>>,
                                !.batchProcessor = FALSE,
                                !.retryProcessor = FALSE,
                                !.rateLimitInfo = InitRateLimitInfo,
                                !.throttlingInfo = InitThrottlingInfo]

\* clearTimeout of the tracked timer, untrack, save; the message stays in the
\* retry queue and in the deletion queue
cancelMessageDeletion(p, id) ==
  IF id \in Tracked(p)
  THEN saveTrackedMessages(
         [p EXCEPT !.timers = @ \ {p.trackedMessages[id].timeoutId},
                   !.trackedMessages = MapDelete(@, id)])
  ELSE p

\* ---------------------------------------------------------- the machine
\* the module variables of the read-receipt plugin (Read/index.tsx) and what
\* the plugin has registered with the page
InitRead ==
  [started |-> FALSE,          \* start() was the last lifecycle call
   startCalls |-> 0,           \* start() calls so far
   waiting |-> 0,              \* start() calls whose waitFor has not settled
   chat |-> FALSE,             \* document.querySelector finds the chat list
   observer |-> FALSE,         \* the variable observer is not null
   observers |-> 0,            \* MutationObservers that observe document.body
   listeners |-> FALSE,        \* onDomChange listens to focus, popstate, hashchange
   ws |-> FALSE,               \* the variable ws is not null
   sockets |-> 0,              \* WebSockets that are open
   messageEventListeners |-> 0,\* length of the array
   clickListeners |-> 0,       \* listeners added with addMessageClickListener
   throttled |-> FALSE,        \* less than DOM_CHANGE_THROTTLE since lastDomChangeTime
   domChangeTimeout |-> FALSE, \* the debounce timer is pending
   clickTimeouts |-> 0,        \* pending timers of the click listener
   receipts |-> 0]             \* read receipts posted
\* the locals of handleDelete (undiscord/index.tsx) from the deletion loop on:
\* phase is where the loop stands, index the message it is at; first, final,
\* requests and waited record per message the first reply, the status of the
\* last reply, the number of requests and the seconds waited after a 429
InitUndiscord ==
  [phase |-> "idle", total |-> 0, batchSize |-> 0, index |-> 0, deleted |-> 0, failed |-> 0,
   first |-> <<>>, final |-> <<>>, requests |-> <<>>, waited |-> <<>>]
NoReply == [status |-> 0, retry_after |-> 0]

Message(author, content) ==
  [author |-> author, channel_id |-> <<"c">>, guild_id |-> <<"g">>, content |-> content,
   embeds |-> 0, attachments |-> 0, reactions |-> 0]

PlainMessage == Message("me", <<"a">>)

MessageShapes ==
  {PlainMessage, Message("me", <<"D">>), Message("me", <<"K">>), Message("other", <<"a">>)}

\* settings.store: the defaults, with the numeric settings at small values of
\* their allowed ranges
InitSettings ==
  [enabled |-> FALSE, emergencyStop |-> FALSE,
   defaultDelay |-> 5, delayUnit |-> "seconds", smartDelay |-> FALSE,
   rateLimitHandling |-> TRUE, maxRetries |-> 2, retryDelay |-> 1000, adaptiveDelay |-> TRUE,
   aggressiveThrottling |-> TRUE, maxDeletionsPerMinute |-> 1, minDelayBetweenDeletions |-> 2000,
   circuitBreakerThreshold |-> 3, circuitBreakerDuration |-> 1,
   batchDelete |-> FALSE, batchSize |-> 2, maxMessagesPerHour |-> 0,
   channelMode |-> "all", channelList |-> <<>>, guildList |-> <<>>,
   preserveKeywords |-> <<"k">>, deleteKeywords |-> <<"d">>,
   maxMessageLength |-> 0, minMessageLength |-> 0,
   preserveEmbeds |-> TRUE, preserveAttachments |-> TRUE, preserveReactions |-> FALSE]

InitRest ==
  /\ now = StartTime
  /\ running = FALSE
  /\ msgs = EmptyMap
  /\ messageStore = {}
  /\ plugin = InitPlugin({}, 0, StartTime)
  /\ sent = [m \in MsgIds |-> 0]
  /\ consec429 = 0
  /\ starts = 0
  /\ deleted = {}
  /\ esa = [msgs |-> {}, req |-> 0]
  /\ hist = [lastRequestAt |-> 0, last429 |-> [m \in MsgIds |-> No429], cancelled |-> {}]
  /\ timeout = NoTimeout
  /\ read = InitRead
  /\ undiscord = InitUndiscord

Init ==
  /\ \E batch \in BOOLEAN : settings = [InitSettings EXCEPT !.batchDelete = batch]
  /\ InitRest

\* the messages for which a handler that leaves the plugin as p sent a request
Requested(p) == {r.id : r \in {q \in p.inflight : q.req > plugin.reqSeq}}

\* the plugin state after a handler, and the history of what the handler did:
\* the requests it sent, the 429 replies it handled (got429, by message), the
\* messages it cancelled
Record(p, got429, cancelledNow) ==
  /\ plugin' = p
  /\ sent' = [m \in MsgIds |->
                sent[m] + Cardinality({r \in p.inflight : r.req > plugin.reqSeq /\ r.id = m})]
  /\ hist' = [lastRequestAt |-> IF Requested(p) # {} THEN now ELSE hist.lastRequestAt,
              last429 |-> [m \in MsgIds |->
                             IF m \in Requested(p) THEN No429
                             ELSE IF m \in DOMAIN got429 THEN got429[m]
                             ELSE hist.last429[m]],
              cancelled |-> hist.cancelled \cup cancelledNow]

Apply(p) == Record(p, EmptyMap, {})

SetEnabled ==
  /\ settings' = [settings EXCEPT !.enabled = ~@]
  /\ UNCHANGED <<now, running, msgs, messageStore, plugin, sent, consec429, starts, deleted, esa, hist, others>>

SetEmergencyStop ==
  /\ settings' = [settings EXCEPT !.emergencyStop = ~@]
  /\ UNCHANGED <<now, running, msgs, messageStore, plugin, sent, consec429, starts, deleted, esa, hist, others>>

Start ==
  /\ ~running
  /\ starts < MaxStarts
  /\ running' = TRUE
  /\ starts' = starts + 1
  /\ Apply(IF plugin.storage = {} THEN plugin ELSE restoreTrackedMessages(plugin))
  /\ UNCHANGED <<now, settings, msgs, messageStore, consec429, deleted, esa, others>>

Stop ==
  /\ running
  /\ running' = FALSE
  /\ Apply(stop(plugin))
  /\ UNCHANGED <<now, settings, msgs, messageStore, consec429, starts, deleted, esa, others>>

\* the client is closed and opened again: memory is lost, the DataStore is kept
Restart ==
  /\ starts < MaxStarts
  /\ running' = FALSE
  /\ messageStore' = {}
  /\ Apply(InitPlugin(plugin.storage, plugin.reqSeq, now))
  /\ UNCHANGED <<now, settings, msgs, consec429, starts, deleted, esa, others>>

CreateMessage(shapes, maxId) ==
  \E shape \in shapes :
    LET id == Cardinality(DOMAIN msgs) + 1
        message == [id |-> id] @@ shape
    IN /\ running
       /\ id <= maxId
       /\ msgs' = MapSet(msgs, id, message)
       /\ messageStore' = messageStore \cup {id}
       /\ Apply(onMessageCreate(plugin, message))
       /\ UNCHANGED <<now, settings, running, consec429, starts, deleted, esa, others>>

MessageCreate == CreateMessage(MessageShapes, MaxMsgs)

FireTimer(maxReq) ==
  \E t \in plugin.timers :
    /\ t.fireAt <= now
    /\ plugin.reqSeq < maxReq
    /\ Apply(TimerCallback([plugin EXCEPT !.timers = @ \ {t}], t))
    /\ UNCHANGED <<now, settings, running, msgs, messageStore, consec429, starts, deleted, esa, others>>

TimerFire == FireTimer(MaxRequests)

RetryInterval(maxReq) ==
  /\ plugin.retryProcessor
  /\ ReadyToRetry(plugin) # <<>> \/ plugin.retryQueue = <<>>
  /\ plugin.reqSeq < maxReq
  /\ Apply(processRetryQueue(plugin))
  /\ UNCHANGED <<now, settings, running, msgs, messageStore, consec429, starts, deleted, esa, others>>

ProcessRetryQueue == RetryInterval(MaxRequests)

ProcessBatchDeletion ==
  /\ plugin.batchProcessor
  /\ plugin.reqSeq < MaxRequests
  /\ Apply(processBatchDeletion(plugin))
  /\ UNCHANGED <<now, settings, running, msgs, messageStore, consec429, starts, deleted, esa, others>>

Reply(replies, maxReq) ==
  \E r \in plugin.inflight, reply \in replies :
    /\ plugin.reqSeq < maxReq \/ r.cont.kind = "none"
    /\ Record(Continue(deleteMessageReply(plugin, r, reply), r.cont),
              IF reply.status = 429
              THEN MapSet(EmptyMap, r.id, [at |-> now, retry_after |-> reply.retry_after,
                                           starts |-> starts])
              ELSE EmptyMap, {})
    /\ messageStore' = IF reply.status \in {200, 404} THEN messageStore \ {r.id} ELSE messageStore
    /\ consec429' = IF reply.status = 429 THEN consec429 + 1 ELSE 0
    /\ deleted' = IF reply.status = 200
                  THEN deleted \cup {[id |-> r.id, req |-> r.req, at |-> now]} ELSE deleted
    /\ UNCHANGED <<now, settings, running, msgs, starts, esa, others>>

DeleteResponse == Reply(Outcomes, MaxRequests)

EmergencyStopAll ==
  /\ Apply(emergencyStopAll(plugin))
  /\ esa' = [msgs |-> esa.msgs \cup Tracked(plugin), req |-> plugin.reqSeq]
  /\ UNCHANGED <<now, settings, running, msgs, messageStore, consec429, starts, deleted, others>>

\* cancelMessageDeletion(id) for a tracked message: it returns true
CancelMessageDeletion ==
  \E id \in Tracked(plugin) :
    /\ Record(cancelMessageDeletion(plugin, id), EmptyMap, {id})
    /\ UNCHANGED <<now, settings, running, msgs, messageStore, consec429, starts, deleted, esa, others>>

\* instants at which a timer or a queued retry becomes due
Due ==
  {t.fireAt : t \in plugin.timers}
  \cup {plugin.retryQueue[i].nextRetry : i \in 1..Len(plugin.retryQueue)}

\* time passes, to the next instant at which a timer or a retry is due: timers
\* fire when they are due, the batch interval (batchDelay, 200 ms by default)
\* and the retry interval (1 s) run before the next instant
Tick ==
  /\ \A d \in Due : d > now
  /\ ~(plugin.batchProcessor /\ plugin.deletionQueue # <<>>)
  /\ \E t \in Due :
       /\ t <= MaxTime
       /\ \A d \in Due : t <= d
       /\ now' = t
  /\ UNCHANGED <<settings, running, msgs, messageStore, plugin, sent, consec429, starts, deleted, esa, hist, others>>

\* one session of the plugin: start(), then messages, timers, retries and replies
Next ==
  \/ SetEnabled
  \/ SetEmergencyStop
  \/ Start
  \/ MessageCreate
  \/ TimerFire
  \/ ProcessRetryQueue
  \/ ProcessBatchDeletion
  \/ DeleteResponse
  \/ Tick

Spec == Init /\ [][Next]_vars

\* the plugin is stopped and started again, the client restarts, and
\* emergencyStopAll() is called, around one message
InitLifecycle ==
  /\ settings = [InitSettings EXCEPT !.enabled = TRUE]
  /\ InitRest

LifecycleCreate == CreateMessage({PlainMessage}, LifecycleMsgs)

NextLifecycle ==
  \/ Start
  \/ Stop
  \/ Restart
  \/ EmergencyStopAll
  \/ CancelMessageDeletion
  \/ LifecycleCreate
  \/ TimerFire
  \/ ProcessRetryQueue
  \/ DeleteResponse
  \/ Tick

SpecLifecycle == InitLifecycle /\ [][NextLifecycle]_vars

\* several messages are sent in the same instant, so that their deletion
\* requests are in flight together
BurstCreate == now = StartTime /\ CreateMessage({PlainMessage}, BurstMsgs)
BurstTimerFire == FireTimer(BurstRequests)
BurstRetry == RetryInterval(BurstRequests)
BurstResponse == Reply(Outcomes, BurstRequests)

NextBurst ==
  \/ Start
  \/ BurstCreate
  \/ BurstTimerFire
  \/ BurstRetry
  \/ BurstResponse
  \/ Tick

SpecBurst == InitLifecycle /\ [][NextBurst]_vars

\* a session with an hourly limit of one deletion
InitHourly ==
  /\ \E throttling \in BOOLEAN :
       settings = [InitSettings EXCEPT !.enabled = TRUE, !.maxMessagesPerHour = 1,
                                       !.aggressiveThrottling = throttling]
  /\ InitRest

HourlyCreate == CreateMessage({PlainMessage}, HourlyMsgs)

NextHourly ==
  \/ Start
  \/ HourlyCreate
  \/ TimerFire
  \/ ProcessRetryQueue
  \/ DeleteResponse
  \/ Tick

SpecHourly == InitHourly /\ [][NextHourly]_vars

\* the timer of scheduleMessageDeletion for the delays the settings allow:
\* onMessageCreate passes 2000 ms or calculateSmartDelay (getDelayInMs when
\* smartDelay is off), setTimeout waits, the callback sends the request
DelayValues == {5} \cup {100 * k : k \in 1..MaxDelayHundreds}

InitTimeout ==
  /\ \E d \in DelayValues, u \in {"seconds", "minutes", "hours"} :
       settings = [InitSettings EXCEPT !.enabled = TRUE, !.defaultDelay = d, !.delayUnit = u]
  /\ InitRest

ScheduleTimeout ==
  /\ ~timeout.set
  /\ ~settings.smartDelay
  /\ \E immediately \in BOOLEAN :
       LET d8 == IF immediately THEN ImmediateDelay \div 8 ELSE getDelayIn8Ms
       IN timeout' = [delay8 |-> d8, wait8 |-> setTimeoutWait8(d8), set |-> TRUE, fired |-> FALSE]
  /\ UNCHANGED <<now, settings, running, msgs, messageStore, plugin, sent, consec429, starts,
                 deleted, esa, hist, read, undiscord>>

TimeoutFires ==
  /\ timeout.set /\ ~timeout.fired
  /\ timeout' = [timeout EXCEPT !.fired = TRUE]
  /\ UNCHANGED <<now, settings, running, msgs, messageStore, plugin, sent, consec429, starts,
                 deleted, esa, hist, read, undiscord>>

NextTimeout ==
  \/ ScheduleTimeout
  \/ TimeoutFires

SpecTimeout == InitTimeout /\ [][NextTimeout]_vars

\* messages that differ in what the preserve rules and the delete keywords
\* look at, under settings that differ in the preserve rules
PreserveContents == {<<>>, <<"a">>, <<"K">>, <<"D">>, <<"D", "k">>}
PreserveShapes ==
  {[Message("me", content) EXCEPT !.embeds = media[1], !.attachments = media[2],
                                   !.reactions = media[3]] :
     content \in PreserveContents,
     media \in {<<0, 0, 0>>, <<1, 0, 0>>, <<0, 1, 0>>, <<0, 0, 1>>}}

InitPreserve ==
  /\ \E keywords \in {<<>>, <<" ", "K", ",">>},
        lengths \in {<<0, 0>>, <<1, 0>>, <<0, 2>>},
        media \in {<<FALSE, FALSE, FALSE>>, <<TRUE, FALSE, FALSE>>,
                   <<FALSE, TRUE, FALSE>>, <<FALSE, FALSE, TRUE>>} :
       settings = [InitSettings EXCEPT !.enabled = TRUE,
                                       !.preserveKeywords = keywords,
                                       !.maxMessageLength = lengths[1],
                                       !.minMessageLength = lengths[2],
                                       !.preserveEmbeds = media[1],
                                       !.preserveAttachments = media[2],
                                       !.preserveReactions = media[3]]
  /\ InitRest

PreserveCreate == CreateMessage(PreserveShapes, FilterMsgs)
FilterTimerFire == FireTimer(FilterRequests)
FilterResponse == Reply({[status |-> 200, retry_after |-> 0]}, FilterRequests)

NextPreserve ==
  \/ Start
  \/ PreserveCreate
  \/ FilterTimerFire
  \/ FilterResponse
  \/ Tick

SpecPreserve == InitPreserve /\ [][NextPreserve]_vars

\* messages that differ in channel and guild (<<>>: the message has no
\* guild), under settings that differ in channelMode and the two lists
ChannelShapes ==
  {[PlainMessage EXCEPT !.channel_id = channel, !.guild_id = guild] :
     channel \in {<<"c">>, <<"x">>}, guild \in {<<"g">>, <<>>}}

InitChannel ==
  /\ \E mode \in {"all", "whitelist", "blacklist", "guilds"},
        channels \in {<<>>, <<"c">>, <<"x", ",", " ", "c", " ">>},
        guilds \in {<<>>, <<" ", "g", ",">>} :
       settings = [InitSettings EXCEPT !.enabled = TRUE, !.channelMode = mode,
                                       !.channelList = channels, !.guildList = guilds]
  /\ InitRest

ChannelCreate == CreateMessage(ChannelShapes, FilterMsgs)

NextChannel ==
  \/ Start
  \/ ChannelCreate
  \/ FilterTimerFire
  \/ FilterResponse
  \/ Tick

SpecChannel == InitChannel /\ [][NextChannel]_vars

\* ------------------------------------------- the read-receipt plugin
autoDeleterVars == <<now, settings, running, msgs, messageStore, plugin, sent, consec429, starts,
                     deleted, esa, hist, timeout>>

onDomChange(r) ==
  IF r.throttled THEN r
  ELSE [r EXCEPT !.throttled = TRUE, !.domChangeTimeout = TRUE]

\* the callback of waitFor(...).then in start(); me: getCurrentUserId() is not null
Initialize(r, me) ==
  IF ~me THEN [r EXCEPT !.waiting = @ - 1]
  ELSE onDomChange([r EXCEPT !.waiting = @ - 1,
                            !.ws = TRUE, !.sockets = @ + 1,
                            !.messageEventListeners = @ + 2,
                            !.clickListeners = @ + 1,
                            !.observer = TRUE, !.observers = @ + 1,
                            !.listeners = TRUE])

\* sendReceiptsForVisibleMessages with n visible messages of others not yet reported
sendReceiptsForVisibleMessages(r, n) == [r EXCEPT !.receipts = @ + n]

readStop(r) ==
  [r EXCEPT !.started = FALSE,
            !.domChangeTimeout = FALSE,
            !.observers = IF r.observer THEN @ - 1 ELSE @,
            !.observer = FALSE,
            !.listeners = FALSE,
            !.sockets = IF r.ws THEN @ - 1 ELSE @,
            !.ws = FALSE,
            !.messageEventListeners = 0]

InitReadReceipts ==
  /\ settings = InitSettings
  /\ InitRest

ReadStart ==
  /\ ~read.started
  /\ read.startCalls < MaxReadStarts
  /\ read' = [read EXCEPT !.started = TRUE, !.startCalls = @ + 1, !.waiting = @ + 1]
  /\ UNCHANGED <<autoDeleterVars, undiscord>>

ReadStop ==
  /\ read.started
  /\ read' = readStop(read)
  /\ UNCHANGED <<autoDeleterVars, undiscord>>

ChatAppears ==
  /\ ~read.chat
  /\ read' = [read EXCEPT !.chat = TRUE]
  /\ UNCHANGED <<autoDeleterVars, undiscord>>

\* waitFor finds the chat list and resolves
WaitForResolves ==
  /\ read.waiting > 0
  /\ read.chat
  /\ \E me \in BOOLEAN : read' = Initialize(read, me)
  /\ UNCHANGED <<autoDeleterVars, undiscord>>

\* waitFor gives up after timeoutMs
WaitForTimeout ==
  /\ read.waiting > 0
  /\ ~read.chat
  /\ read' = [read EXCEPT !.waiting = @ - 1]
  /\ UNCHANGED <<autoDeleterVars, undiscord>>

\* a mutation of document.body, or focus, popstate, hashchange
DomChange ==
  /\ read.observers > 0 \/ read.listeners
  /\ read' = onDomChange(read)
  /\ UNCHANGED <<autoDeleterVars, undiscord>>

ThrottleElapses ==
  /\ read.throttled
  /\ read' = [read EXCEPT !.throttled = FALSE]
  /\ UNCHANGED <<autoDeleterVars, undiscord>>

DebounceFires ==
  /\ read.domChangeTimeout
  /\ \E n \in {0, 1} :
       /\ read.receipts + n <= MaxReceipts
       /\ read' = sendReceiptsForVisibleMessages([read EXCEPT !.domChangeTimeout = FALSE], n)
  /\ UNCHANGED <<autoDeleterVars, undiscord>>

MessageClick ==
  /\ read.clickListeners > 0
  /\ read.clickTimeouts < MaxClicks
  /\ read' = [read EXCEPT !.clickTimeouts = @ + 1]
  /\ UNCHANGED <<autoDeleterVars, undiscord>>

ClickTimeoutFires ==
  /\ read.clickTimeouts > 0
  /\ \E n \in {0, 1} :
       /\ read.receipts + n <= MaxReceipts
       /\ read' = sendReceiptsForVisibleMessages([read EXCEPT !.clickTimeouts = @ - 1], n)
  /\ UNCHANGED <<autoDeleterVars, undiscord>>

NextRead ==
  \/ ReadStart
  \/ ReadStop
  \/ ChatAppears
  \/ WaitForResolves
  \/ WaitForTimeout
  \/ DomChange
  \/ ThrottleElapses
  \/ DebounceFires
  \/ MessageClick
  \/ ClickTimeoutFires

SpecRead == InitReadReceipts /\ [][NextRead]_vars

\* ----------------------------------------------------------- Undiscord
UndiscordReplies ==
  {[status |-> 200, retry_after |-> 0], [status |-> 404, retry_after |-> 0],
   [status |-> 500, retry_after |-> 0], [status |-> 429, retry_after |-> 0],
   [status |-> 429, retry_after |-> 2]}

\* the loop goes to the next message: its request is sent, or the loop ends
NextMessage(u) ==
  IF u.index = u.total THEN [u EXCEPT !.phase = "done"]
  ELSE [u EXCEPT !.phase = "request", !.index = @ + 1, !.requests[u.index + 1] = 1]

\* the reply to the first request for the message at index
firstReply(u, reply) ==
  LET i == u.index
      v == [u EXCEPT !.first[i] = reply, !.final[i] = reply.status]
  IN CASE reply.status = 200 ->
            IF (v.deleted + 1) % v.batchSize = 0
            THEN [v EXCEPT !.deleted = @ + 1, !.phase = "pause"]
            ELSE NextMessage([v EXCEPT !.deleted = @ + 1])
       [] reply.status = 429 ->
            [v EXCEPT !.phase = "waiting",
                      !.waited[i] = IF reply.retry_after # 0 THEN reply.retry_after ELSE 5]
       [] reply.status = 404 -> NextMessage([v EXCEPT !.deleted = @ + 1])
       [] OTHER -> NextMessage([v EXCEPT !.failed = @ + 1])

\* the reply to the retry after a 429
retryReply(u, reply) ==
  LET v == [u EXCEPT !.final[u.index] = reply.status]
  IN IF reply.status = 200 THEN NextMessage([v EXCEPT !.deleted = @ + 1])
     ELSE NextMessage([v EXCEPT !.failed = @ + 1])

InitDelete ==
  /\ settings = InitSettings
  /\ InitRest

\* the messages are collected and the loop sends its first request
HandleDelete ==
  /\ undiscord.phase = "idle"
  /\ \E total \in 1..MaxTargets, batchSize \in {1, 2} :
       undiscord' = NextMessage([InitUndiscord EXCEPT !.total = total, !.batchSize = batchSize,
                                                      !.first = [i \in 1..total |-> NoReply],
                                                      !.final = [i \in 1..total |-> 0],
                                                      !.requests = [i \in 1..total |-> 0],
                                                      !.waited = [i \in 1..total |-> 0]])
  /\ UNCHANGED <<autoDeleterVars, read>>

FirstReply ==
  /\ undiscord.phase = "request"
  /\ \E reply \in UndiscordReplies : undiscord' = firstReply(undiscord, reply)
  /\ UNCHANGED <<autoDeleterVars, read>>

\* the wait of retryAfter seconds is over: the retry is sent
RateLimitWaitOver ==
  /\ undiscord.phase = "waiting"
  /\ undiscord' = [undiscord EXCEPT !.phase = "retry", !.requests[undiscord.index] = @ + 1]
  /\ UNCHANGED <<autoDeleterVars, read>>

RetryReply ==
  /\ undiscord.phase = "retry"
  /\ \E reply \in UndiscordReplies : undiscord' = retryReply(undiscord, reply)
  /\ UNCHANGED <<autoDeleterVars, read>>

\* the pause after batchSize deletions is over
PauseOver ==
  /\ undiscord.phase = "pause"
  /\ undiscord' = NextMessage(undiscord)
  /\ UNCHANGED <<autoDeleterVars, read>>

NextDelete ==
  \/ HandleDelete
  \/ FirstReply
  \/ RateLimitWaitOver
  \/ RetryReply
  \/ PauseOver

SpecDelete == InitDelete /\ [][NextDelete]_vars

\* ------------------------------------------------------------ the claims
HasTimer(p, id) == \E t \in p.timers : t.id = id
InRestoreLoop(p, id) ==
  \E r \in p.inflight : r.cont.kind = "restore"
                        /\ \E i \in 1..Len(r.cont.items) : r.cont.items[i].id = id
RequestSent == plugin'.reqSeq # plugin.reqSeq
BreakerOpen(p) ==
  p.rateLimitInfo.circuitBreakerOpen /\ now < p.rateLimitInfo.circuitBreakerUntil
Eligible(message) ==
  /\ message.author = "me"
  /\ shouldProcessChannel(message.channel_id)
  /\ shouldProcessGuild(message.guild_id)
  /\ ~shouldPreserveMessage(message)

\* C1: every message saved in storage is, when start() has run
\* restoreTrackedMessages, sent for deletion (or waiting for its retry or its
\* turn in the restore loop) or tracked again with a timer; none is dropped.
C1_NoSavedMessageDropped ==
  [][(~running /\ running') =>
       \A savedMsg \in plugin.storage :
          \/ sent'[savedMsg.id] > sent[savedMsg.id]
          \/ InRetryQueue(plugin', savedMsg.id)
          \/ InRestoreLoop(plugin', savedMsg.id)
          \/ savedMsg.id \in Tracked(plugin') /\ HasTimer(plugin', savedMsg.id)]_vars

\* C2: every message of the current user created while enabled is true and
\* emergencyStop is false, accepted by the channel and guild filters and
\* not preserved, is tracked with a timer when onMessageCreate returns.
C2_EligibleMessageScheduled ==
  [][\A m \in (DOMAIN msgs') \ (DOMAIN msgs) :
       (settings.enabled /\ ~settings.emergencyStop /\ Eligible(msgs'[m]))
         => m \in Tracked(plugin') /\ HasTimer(plugin', m)]_vars

\* C3: no message has more than settings.maxRetries deleteMessage calls that reach
\* the delete step.
C3_AttemptsBounded == \A m \in MsgIds : sent[m] <= settings.maxRetries

\* C4: with rateLimitHandling on, when the reply that makes
\* settings.circuitBreakerThreshold 429 replies in a row is handled, the circuit
\* breaker is open until that time plus settings.circuitBreakerDuration minutes.
C4_BreakerOpensAtThreshold ==
  [][(settings.rateLimitHandling /\ consec429' # consec429
      /\ consec429' >= settings.circuitBreakerThreshold) =>
       /\ plugin'.rateLimitInfo.circuitBreakerOpen
       /\ plugin'.rateLimitInfo.circuitBreakerUntil =
            now + settings.circuitBreakerDuration * 60 * 1000]_vars

\* C5: while the circuit breaker is open and circuitBreakerUntil is in the
\* future, no deletion request is sent.
C5_NoRequestWhileBreakerOpen == [][BreakerOpen(plugin) => ~RequestSent]_vars

\* C6: while the emergencyStop setting is true, no deletion request is sent.
C6_NoRequestWhileEmergencyStop == [][settings.emergencyStop => ~RequestSent]_vars

\* C7: no message that was pending when emergencyStopAll() was called is
\* deleted by a request sent after the call.
C7_NoDeletionAfterEmergencyStopAll ==
  \A d \in deleted : ~(d.id \in esa.msgs /\ d.req > esa.req)

\* C8: between the return of stop() and the next start(), no deletion
\* request is sent.
C8_NoRequestWhileStopped == [][(~running /\ ~running') => ~RequestSent]_vars

\* C9: while the enabled setting is false, no deletion request is sent.
C9_NoRequestWhileDisabled == [][~settings.enabled => ~RequestSent]_vars

\* C10: with aggressiveThrottling on, at most settings.maxDeletionsPerMinute
\* deletions succeed in any interval of 60 seconds.
C10_DeletionsPerMinuteBounded ==
  settings.aggressiveThrottling =>
    \A d \in deleted :
      Cardinality({e \in deleted : d.at - minuteInMs < e.at /\ e.at <= d.at})
        <= settings.maxDeletionsPerMinute

\* C11: with aggressiveThrottling on, a handler starts at most one deletion
\* request, and starts it at least settings.minDelayBetweenDeletions ms after
\* the request started before it.
C11_RequestsSpacedApart ==
  [][(settings.aggressiveThrottling /\ RequestSent) =>
       /\ plugin'.reqSeq = plugin.reqSeq + 1
       /\ hist.lastRequestAt = 0
          \/ now - hist.lastRequestAt >= settings.minDelayBetweenDeletions]_vars

\* C12: when settings.maxMessagesPerHour is above 0, at most that many
\* deletions succeed in any interval of one hour.
C12_DeletionsPerHourBounded ==
  settings.maxMessagesPerHour > 0 =>
    \A d \in deleted :
      Cardinality({e \in deleted : d.at - hourInMs < e.at /\ e.at <= d.at})
        <= settings.maxMessagesPerHour

\* C13: when the timer of a scheduled message fires and the request is sent,
\* the timer has waited at least the delay the message was scheduled with.
C13_NoRequestBeforeDelay == timeout.fired => timeout.wait8 >= timeout.delay8

\* C14: once cancelMessageDeletion(id) has returned true, no deletion request
\* is sent for message id (no message id is created twice).
C14_NoRequestAfterCancel == [][\A m \in hist.cancelled : sent'[m] = sent[m]]_vars

\* the message is scheduled, waits for a retry, or a request was sent for it
Handled(m) ==
  \/ m \in Tracked(plugin)
  \/ HasTimer(plugin, m)
  \/ \E x \in plugin.storage : x.id = m
  \/ InRetryQueue(plugin, m)
  \/ sent[m] > 0
  \/ \E d \in deleted : d.id = m

\* the preserve rules as C15 states them
ListEntries(list) ==
  {Trim(SplitComma(list, <<>>)[i]) : i \in 1..Len(SplitComma(list, <<>>))} \ {<<>>}
MatchesPreserveRule(message) ==
  \/ \E k \in ListEntries(settings.preserveKeywords) :
        Includes(LowerCase(message.content), LowerCase(k))
  \/ settings.maxMessageLength > 0 /\ Len(message.content) > settings.maxMessageLength
  \/ settings.minMessageLength > 0 /\ Len(message.content) < settings.minMessageLength
  \/ settings.preserveEmbeds /\ message.embeds > 0
  \/ settings.preserveAttachments /\ message.attachments > 0
  \/ settings.preserveReactions /\ message.reactions > 0

\* C15: a message whose MESSAGE_CREATE event matches a preserve rule is never
\* scheduled and no deletion request is ever sent for it, also when it
\* contains a delete keyword.
C15_PreservedNeverScheduled ==
  \A m \in DOMAIN msgs : MatchesPreserveRule(msgs[m]) => ~Handled(m)

\* a message with a delete keyword and a preserve keyword was created and left alone
C15_Witness ==
  \E m \in DOMAIN msgs :
    /\ msgs[m].content = <<"D", "k">>
    /\ settings.preserveKeywords # <<>>
    /\ shouldDeleteImmediately(msgs[m].content)
    /\ ~Handled(m)

\* the channel rule as C16 states it
PassesChannelMode(message) ==
  CASE settings.channelMode = "whitelist" ->
         message.channel_id \in ListEntries(settings.channelList)
    [] settings.channelMode = "blacklist" ->
         message.channel_id \notin ListEntries(settings.channelList)
    [] settings.channelMode = "guilds" ->
         message.guild_id # <<>> /\ message.guild_id \in ListEntries(settings.guildList)
    [] settings.channelMode = "all" -> TRUE

\* C16: a message is scheduled (and a request sent for it) only if its
\* channel passes channelMode.
C16_ScheduledOnlyIfChannelPasses ==
  \A m \in DOMAIN msgs : Handled(m) => PassesChannelMode(msgs[m])

\* in guilds mode, with a guild listed, a message without a guild was created
\* and left alone
C16_Witness ==
  /\ settings.channelMode = "guilds"
  /\ settings.guildList # <<>>
  /\ \E m \in DOMAIN msgs : msgs[m].guild_id = <<>> /\ ~Handled(m)

\* C17: after a 429 reply for a message with retry_after = r, the next request
\* for that message is sent no earlier than max(r * 1000, 5000) ms after the
\* reply.
C17_RetryWaitsAfter429 ==
  [][\A m \in MsgIds :
       (sent'[m] > sent[m] /\ hist.last429[m] # No429) =>
         now >= hist.last429[m].at
                  + Max(hist.last429[m].retry_after * 1000, MinRateLimitRetryDelay)]_vars

\* C18: once stop() of the read-receipt plugin has returned and until the next
\* start(), no MutationObserver, window listener, WebSocket or message-click
\* listener of the plugin is active and no read receipt is sent.
C18_NothingActiveAfterStop ==
  [][(~read'.started) =>
       /\ read'.observers = 0
       /\ ~read'.listeners
       /\ read'.sockets = 0
       /\ read'.clickListeners = 0
       /\ ~read.started => read'.receipts = read.receipts]_vars

\* C19: when the deletion loop of handleDelete is over, deleted + failed is
\* the number of target messages; deleted counts the messages whose last reply
\* is success or 404 and failed the others; a message whose first reply is 429
\* got exactly one more request, after retry_after seconds (5 if absent), and
\* every other message got one request.
C19_EachTargetCountedOnce ==
  undiscord.phase = "done" =>
    LET targets == 1..undiscord.total
        gone == {i \in targets : undiscord.final[i] \in {200, 404}}
    IN /\ undiscord.deleted + undiscord.failed = undiscord.total
       /\ undiscord.deleted = Cardinality(gone)
       /\ undiscord.failed = Cardinality(targets \ gone)
       /\ \A i \in targets :
            IF undiscord.first[i].status = 429
            THEN /\ undiscord.requests[i] = 2
                 /\ undiscord.waited[i] = IF undiscord.first[i].retry_after = 0 THEN 5
                                          ELSE undiscord.first[i].retry_after
            ELSE undiscord.requests[i] = 1 /\ undiscord.waited[i] = 0

====
